---- MODULE Spec2Model ----
(***************************************************************************)
(* Ephemeral Audio Decay System (src/app.py): the request handlers of the  *)
(* Flask server as a state machine.  Every request is a thread; a handler  *)
(* is cut into steps at each access to shared state (the metadata store,   *)
(* the audio file, the segment lock table).                                *)
(***************************************************************************)
EXTENDS Integers, Sequences, FiniteSets, TLC

(* ------------------------------ bounds -------------------------------- *)
NumReq == 2          \* concurrent request threads
NumSegments == 2     \* segments of the track "a.wav"
SegLen == 2          \* samples per segment
MaxInitCount == 1    \* largest play count persisted before the server starts

(* -------------------------- program constants ------------------------- *)
DEGRADATION_RATE == 1   \* app.config['DEGRADATION_RATE'], default '1.0'

\* no request on the thread yet
None == "None"
\* get_track_metadata found no record
NoMetadata == [found |-> FALSE, total_segments |-> 0, segment_play_counts |-> <<>>]
Requests == 1..NumReq
Tracks == {"a.wav", "b.wav"}
Filenames == Tracks \cup {"missing.wav"}
TotalSegments(f) == IF f = "a.wav" THEN NumSegments ELSE 1
SegmentsOf(f) == 0..(TotalSegments(f) - 1)
Samples == 1..SegLen
\* the JSON bodies of POST /degrade: with or without a segment_index
NoBody == [given |-> FALSE, segment_index |-> 0]
Bodies == {NoBody}
          \cup {[given |-> TRUE, segment_index |-> i] : i \in -1..NumSegments}
LockKeys == UNION {{<<f, i>> : i \in SegmentsOf(f)} : f \in Tracks}

Min(a, b) == IF a < b THEN a ELSE b

VARIABLES
  playCounts,     \* metadata store: playCounts[f][i], persisted segment_play_counts
  totalStreams,   \* metadata store: totalStreams[f]
  audio,          \* the audio files: audio[f][i][k], sample k of segment i
  waveformCache,  \* the cached waveform artifact per track, <<>> when missing
  locks,          \* lock table: locks[<<f, i>>] = holder request, 0 when free
  pc,             \* position of each request thread
  endpoint,       \* the route the request came in on
  filename,       \* <filename> of the route of a degrade or stream request
  data,           \* local of degrade_segment: the JSON body of the request
  range_header,   \* whether the GET /stream request carries a Range header
  failure,        \* the kind of failure the request met, "none" before any
  metadata,       \* local of degrade_segment: the record returned by get_track_metadata
  play_count,     \* local of degrade_segment
  stored,         \* local of increment_segment_play_count: the count it loaded
  audio_data,     \* local of degrade_segment / chunk read by a stream
  degraded_audio, \* local of degrade_segment
  status,         \* HTTP status of the response, 0 while the request runs
  reported,       \* 'play_count' field of the success response
  pos,            \* next segment the generator of stream_audio reads
  startCounts     \* the play counts persisted when the server started

vars == <<playCounts, totalStreams, audio, waveformCache, locks, pc, endpoint,
          filename, data, range_header, failure, metadata, play_count, stored,
          audio_data, degraded_audio, status, reported, pos, startCounts>>

store == <<playCounts, totalStreams, audio, waveformCache>>
locals == <<metadata, play_count, stored, audio_data, degraded_audio, reported, pos>>
frame == <<metadata, play_count, stored, audio_data, degraded_audio, pos>>
route == <<endpoint, filename, data, range_header>>

NoSamples == [k \in Samples |-> 0]
NoRange == [given |-> FALSE, start |-> 0]

(* ------------------------------ Init ---------------------------------- *)
\* samples of an untouched file: all nonzero, distinct per segment
OriginalSamples(f, i) == [k \in Samples |-> (IF f = "a.wav" THEN 10 ELSE 20) + i * SegLen + k]

Init ==
  \* "a.wav" carries the counts of earlier runs, "b.wav" is newly scanned
  /\ \E c \in 0..MaxInitCount :
        playCounts = [f \in Tracks |->
                        [i \in SegmentsOf(f) |-> IF f = "a.wav" THEN c ELSE 0]]
  /\ startCounts = playCounts
  /\ totalStreams = [f \in Tracks |-> 0]
  /\ audio = [f \in Tracks |-> [i \in SegmentsOf(f) |-> OriginalSamples(f, i)]]
  /\ waveformCache = [f \in Tracks |-> <<>>]
  /\ locks = [key \in LockKeys |-> 0]
  /\ pc = [r \in Requests |-> "idle"]
  /\ endpoint = [r \in Requests |-> None]
  /\ filename = [r \in Requests |-> None]
  /\ data = [r \in Requests |-> NoBody]
  /\ range_header = [r \in Requests |-> FALSE]
  /\ failure = [r \in Requests |-> "none"]
  /\ stored = [r \in Requests |-> 0]
  /\ metadata = [r \in Requests |-> NoMetadata]
  /\ play_count = [r \in Requests |-> 0]
  /\ audio_data = [r \in Requests |-> NoSamples]
  /\ degraded_audio = [r \in Requests |-> NoSamples]
  /\ status = [r \in Requests |-> 0]
  /\ reported = [r \in Requests |-> 0]
  /\ pos = [r \in Requests |-> 0]

\* the handler returns: its locals are gone
Return(r) ==
  /\ pc' = [pc EXCEPT ![r] = "done"]
  /\ metadata' = [metadata EXCEPT ![r] = NoMetadata]
  /\ play_count' = [play_count EXCEPT ![r] = 0]
  /\ stored' = [stored EXCEPT ![r] = 0]
  /\ audio_data' = [audio_data EXCEPT ![r] = NoSamples]
  /\ degraded_audio' = [degraded_audio EXCEPT ![r] = NoSamples]
  /\ pos' = [pos EXCEPT ![r] = 0]

\* a new request arrives on the next free thread
Arrives(r) == pc[r] = "idle" /\ (IF r = 1 THEN TRUE ELSE pc[r - 1] # "idle")

(* --------------------------- MetadataManager -------------------------- *)
GetTrackMetadata(f) ==
  IF f \in Tracks
  THEN [found |-> TRUE, total_segments |-> TotalSegments(f),
        segment_play_counts |-> playCounts[f]]
  ELSE NoMetadata

\* increment_segment_play_count is a load and a save of one segment's count; the
\* store does not serialize them, the segment lock does
SaveSegmentPlayCount(f, i, count) == [playCounts EXCEPT ![f][i] = count]

IncrementTotalStreams(f) == [totalStreams EXCEPT ![f] = @ + 1]

(* ----------------------------- wav_handler ---------------------------- *)
FileExists(f) == f \in Tracks

ReadSegment(f, i) == audio[f][i]

\* the file after the first n samples of the window of segment i are overwritten
WriteFrames(f, i, samples, n) ==
  [audio EXCEPT ![f][i] = [k \in Samples |-> IF k <= n THEN samples[k] ELSE @[k]]]

FirstPart == (SegLen + 1) \div 2

(* ----------------------------- degradation ---------------------------- *)
DropoutLength(count, rate) == Min(SegLen, count * rate)

ApplyDropout(samples, count, rate) ==
  [k \in Samples |-> IF k <= DropoutLength(count, rate) THEN 0 ELSE samples[k]]

(* ----------------------------- lock_manager --------------------------- *)
LockFree(key) == locks[key] = 0

Acquire(key, r) == [locks EXCEPT ![key] = r]

\* leaving the 'with' block: release only what this request holds
Release(key, r) == [locks EXCEPT ![key] = IF @ = r THEN 0 ELSE @]

(* ------------------------ POST /degrade/<filename> -------------------- *)
\* the checks before the lock: 0 when the request passes them
\* (bug: off by one in the upper bound)
Validate_OffByOne(body, meta) ==
  IF ~body.given THEN 400
  ELSE IF ~meta.found THEN 404
  ELSE IF body.segment_index < 0 \/ body.segment_index > meta.total_segments THEN 400
  ELSE 0
Validate(body, meta) ==
  IF ~body.given THEN 400
  ELSE IF ~meta.found THEN 404
  ELSE IF body.segment_index < 0 \/ body.segment_index >= meta.total_segments THEN 400
  ELSE 0

segment_index(r) == data[r].segment_index

\* (bug: one lock per track)
LockKey_PerTrack(f, i) == <<f, 0>>
LockKey(f, i) == <<f, i>>

MyKey(r) == LockKey(filename[r], segment_index(r))

\* what is wrong with a request before it reaches the lock
Refusal(f, body) ==
  IF ~body.given THEN "InvalidArgument"
  ELSE IF f \notin Tracks THEN "NotFound"
  ELSE IF body.segment_index \notin SegmentsOf(f) THEN "InvalidArgument"
  ELSE "none"

DegradeBegin(r) ==
  \E f \in Filenames, body \in Bodies :
    LET meta == GetTrackMetadata(f)
        code == Validate(body, meta)
    IN /\ Arrives(r)
       /\ endpoint' = [endpoint EXCEPT ![r] = "degrade"]
       /\ filename' = [filename EXCEPT ![r] = f]
       /\ data' = [data EXCEPT ![r] = body]
       /\ status' = [status EXCEPT ![r] = code]
       /\ failure' = [failure EXCEPT ![r] = Refusal(f, body)]
       /\ IF code = 0
          THEN /\ pc' = [pc EXCEPT ![r] = "lock"]
               /\ metadata' = [metadata EXCEPT ![r] = meta]
               /\ UNCHANGED <<play_count, stored, audio_data, degraded_audio, pos>>
          ELSE Return(r)
       /\ UNCHANGED <<store, locks, range_header, reported, startCounts>>

\* 'if lock.acquired': where the request goes and what it answers
\* (bug: the handler does not look at lock.acquired)
AfterLock_Unchecked(acquired) == "read"
\* (bug: the handler tries again when the acquisition timed out)
AfterLock_Retry(acquired) == IF acquired THEN "read" ELSE "lock"
AfterLock(acquired) == IF acquired THEN "read" ELSE "done"
\* (bug: a timeout is answered like an exception)
StatusAfterLock_Error(acquired) == IF acquired THEN 0 ELSE 500
StatusAfterLock(acquired) == IF acquired THEN 0 ELSE 503

\* the lock table once a request whose lock.acquired is false has left the
\* 'with' block: it releases nothing
\* (bug: the block is left through an unconditional release)
LocksAfterTimeout_Released(r) == [locks EXCEPT ![MyKey(r)] = 0]
LocksAfterTimeout(r) == Release(MyKey(r), r)

DegradeLock(r) ==
  /\ pc[r] = "lock"
  /\ LockFree(MyKey(r))
  /\ locks' = Acquire(MyKey(r), r)
  /\ pc' = [pc EXCEPT ![r] = AfterLock(TRUE)]
  /\ status' = [status EXCEPT ![r] = StatusAfterLock(TRUE)]
  /\ UNCHANGED <<store, route, failure, locals, startCounts>>

\* the lock stayed held for the whole timeout: lock.acquired is false
DegradeLockTimeout(r) ==
  /\ pc[r] = "lock"
  /\ ~LockFree(MyKey(r))
  /\ status' = [status EXCEPT ![r] = StatusAfterLock(FALSE)]
  /\ failure' = [failure EXCEPT ![r] = "Unavailable"]
  /\ IF AfterLock(FALSE) = "done"
     THEN Return(r) /\ locks' = LocksAfterTimeout(r)
     ELSE /\ pc' = [pc EXCEPT ![r] = AfterLock(FALSE)]
          /\ UNCHANGED <<locks, frame>>
  /\ UNCHANGED <<store, route, reported, startCounts>>

CurrentPlayCount(r) == metadata[r].segment_play_counts[segment_index(r)]

\* the step after the transform
\* (bug: the handler goes on to the play count without the write-back)
AfterTransform_NoWrite == "commit"
\* (bug: the write-back takes the segment's lock once more)
AfterTransform_Relock == "lock"
AfterTransform == "write"

\* play_count, read_segment and apply_dropout
DegradeRead(r) ==
  LET samples == ReadSegment(filename[r], segment_index(r))
      count == CurrentPlayCount(r)
  IN /\ pc[r] = "read"
     /\ play_count' = [play_count EXCEPT ![r] = count]
     /\ audio_data' = [audio_data EXCEPT ![r] = samples]
     /\ degraded_audio' = [degraded_audio EXCEPT ![r] =
           ApplyDropout(samples, count, DEGRADATION_RATE)]
     /\ pc' = [pc EXCEPT ![r] = AfterTransform]
     /\ UNCHANGED <<store, locks, route, failure, metadata, stored, status,
                    reported, pos, startCounts>>

\* the file once write_segment has written the first n samples
\* (bug: the write-back goes to the first segment of the track)
FileAfterWrite_FirstSegment(r, n) == WriteFrames(filename[r], 0, degraded_audio[r], n)
\* (bug: file_path names another track's file)
FileAfterWrite_OtherTrack(r, n) == WriteFrames("a.wav", segment_index(r), degraded_audio[r], n)
FileAfterWrite(r, n) == WriteFrames(filename[r], segment_index(r), degraded_audio[r], n)

\* write_segment, cut where another thread can see the window half written
DegradeWriteBegin(r) ==
  /\ pc[r] = "write"
  /\ audio' = FileAfterWrite(r, FirstPart)
  /\ pc' = [pc EXCEPT ![r] = "writing"]
  /\ UNCHANGED <<playCounts, totalStreams, waveformCache, locks, route, failure,
                 locals, status, startCounts>>

DegradeWriteEnd(r) ==
  /\ pc[r] = "writing"
  /\ audio' = FileAfterWrite(r, SegLen)
  /\ pc' = [pc EXCEPT ![r] = "commit"]
  /\ UNCHANGED <<playCounts, totalStreams, waveformCache, locks, route, failure,
                 locals, status, startCounts>>

\* increment_segment_play_count: the store loads the count of the segment ...
DegradeIncrementLoad(r) ==
  /\ pc[r] = "commit"
  /\ stored' = [stored EXCEPT ![r] = playCounts[filename[r]][segment_index(r)]]
  /\ pc' = [pc EXCEPT ![r] = "save"]
  /\ UNCHANGED <<store, locks, route, failure, metadata, play_count, audio_data,
                 degraded_audio, status, reported, pos, startCounts>>

ReportedPlayCount(count) == count + 1

\* ... and saves it one higher; then the response and the exit of the 'with' block
\* (bug: the increment goes to the first segment of the track)
CountsAfterCommit_FirstSegment(r) == SaveSegmentPlayCount(filename[r], 0, stored[r] + 1)
CountsAfterCommit(r) == SaveSegmentPlayCount(filename[r], segment_index(r), stored[r] + 1)

DegradeCommit(r) ==
  /\ pc[r] = "save"
  /\ playCounts' = CountsAfterCommit(r)
  /\ reported' = [reported EXCEPT ![r] = ReportedPlayCount(play_count[r])]
  /\ status' = [status EXCEPT ![r] = 200]
  /\ locks' = Release(MyKey(r), r)
  /\ Return(r)
  /\ UNCHANGED <<totalStreams, audio, waveformCache, route, failure, startCounts>>

\* an exception inside the 'with' block: the lock is released, 'except' answers 500
\* (bug: release written after the work instead of in a finally / __exit__)
LocksAfterException_Held(r) == locks
LocksAfterException(r) == Release(MyKey(r), r)

\* where an exception can be raised: read_segment or apply_dropout ("read"),
\* write_segment ("write", "writing"), increment_segment_play_count ("commit", "save")
\* read_segment, write_segment and the store raise I/O errors; anything else,
\* in the transform, is an unexpected condition
Raisable(step) ==
  IF step = "read" THEN {"IOFailure", "InternalError"} ELSE {"IOFailure"}

\* 'except Exception as e: return jsonify({'error': str(e)}), 500'
\* (bug: the handler swallows the exception and answers 'success')
ExceptStatus_Swallowed(kind) == 200
ExceptStatus(kind) == 500

DegradeFail(r) ==
  \E kind \in Raisable(pc[r]) :
    /\ pc[r] \in {"read", "write", "writing", "commit", "save"}
    /\ locks' = LocksAfterException(r)
    /\ status' = [status EXCEPT ![r] = ExceptStatus(kind)]
    /\ failure' = [failure EXCEPT ![r] = kind]
    /\ Return(r)
    /\ UNCHANGED <<store, route, reported, startCounts>>

Degrade(r) ==
  \/ DegradeBegin(r)
  \/ DegradeLock(r)
  \/ DegradeLockTimeout(r)
  \/ DegradeRead(r)
  \/ DegradeWriteBegin(r)
  \/ DegradeWriteEnd(r)
  \/ DegradeIncrementLoad(r)
  \/ DegradeCommit(r)
  \/ DegradeFail(r)

(* --------------------------- GET /stream/<filename> ------------------- *)
\* the Range header: absent, or "bytes=<start>-" at the first byte of the
\* second segment
Ranges == {NoRange, [given |-> TRUE, start |-> 1]}

\* total_streams after the handler has looked at the headers
\* (bug: a range request is counted as well)
StreamsAfter_Always(f, range) == IncrementTotalStreams(f)
StreamsAfter(f, range) == IF ~range.given THEN IncrementTotalStreams(f) ELSE totalStreams

StreamBegin(r) ==
  \E f \in Filenames, range \in Ranges :
    /\ Arrives(r)
    /\ endpoint' = [endpoint EXCEPT ![r] = "stream"]
    /\ filename' = [filename EXCEPT ![r] = f]
    /\ range_header' = [range_header EXCEPT ![r] = range.given]
    /\ IF ~FileExists(f)
       THEN /\ status' = [status EXCEPT ![r] = 404]
            /\ Return(r)
            /\ UNCHANGED totalStreams
       ELSE /\ totalStreams' = StreamsAfter(f, range)
            /\ status' = [status EXCEPT ![r] = IF range.given THEN 206 ELSE 200]
            /\ pos' = [pos EXCEPT ![r] = range.start]
            /\ pc' = [pc EXCEPT ![r] = "stream"]
            /\ UNCHANGED <<metadata, play_count, stored, audio_data, degraded_audio>>
    /\ UNCHANGED <<playCounts, audio, waveformCache, locks, data, failure, reported,
                   startCounts>>

\* whether generate() may read on: it opens and reads the file with no lock
\* (bug: the stream waits for the lock of the segment it is about to read)
StreamMayRead_Locked(r) == LockFree(LockKey(filename[r], pos[r]))
StreamMayRead(r) == TRUE

\* generate(): one f.read per step, no lock taken
StreamRead(r) ==
  /\ pc[r] = "stream"
  /\ pos[r] < TotalSegments(filename[r])
  /\ StreamMayRead(r)
  /\ audio_data' = [audio_data EXCEPT ![r] = audio[filename[r]][pos[r]]]
  /\ pos' = [pos EXCEPT ![r] = @ + 1]
  /\ UNCHANGED <<store, locks, pc, route, failure, metadata, play_count, stored,
                 degraded_audio, status, reported, startCounts>>

StreamEnd(r) ==
  /\ pc[r] = "stream"
  /\ pos[r] >= TotalSegments(filename[r])
  /\ Return(r)
  /\ UNCHANGED <<store, locks, route, failure, status, reported, startCounts>>

(* -------------------- GET /stream/<filename>/chunk/<n> ---------------- *)
\* a 5-second chunk holds ten segments: chunk 0 is the whole of a modelled track,
\* any later chunk lies beyond the end of the file
ChunkStatus(f, chunk_index) ==
  IF ~FileExists(f) THEN 404
  ELSE IF chunk_index * 10 < TotalSegments(f) THEN 200
  ELSE 500

\* total_streams after a chunk request: the handler does not count it
\* (bug: a chunk is counted as a stream, as in stream_audio)
StreamsAfterChunk_Counted(f) ==
  IF FileExists(f) THEN IncrementTotalStreams(f) ELSE totalStreams
StreamsAfterChunk(f) == totalStreams

StreamChunk(r) ==
  \E f \in Filenames, chunk_index \in 0..1 :
    /\ Arrives(r)
    /\ endpoint' = [endpoint EXCEPT ![r] = "chunk"]
    /\ status' = [status EXCEPT ![r] = ChunkStatus(f, chunk_index)]
    /\ totalStreams' = StreamsAfterChunk(f)
    /\ Return(r)
    /\ UNCHANGED <<playCounts, audio, waveformCache, locks, filename, data,
                   range_header, failure, reported, startCounts>>

(* ------------------------ GET /tracks, GET /stats --------------------- *)
GetTracks(r) ==
  /\ Arrives(r)
  /\ endpoint' = [endpoint EXCEPT ![r] = "tracks"]
  /\ status' = [status EXCEPT ![r] = 200]
  /\ Return(r)
  /\ UNCHANGED <<store, locks, filename, data, range_header, failure, reported,
                 startCounts>>

GetStats(r) ==
  \E f \in Filenames :
    /\ Arrives(r)
    /\ endpoint' = [endpoint EXCEPT ![r] = "stats"]
    /\ status' = [status EXCEPT ![r] = IF GetTrackMetadata(f).found THEN 200 ELSE 404]
    /\ Return(r)
    /\ UNCHANGED <<store, locks, filename, data, range_header, failure, reported,
                   startCounts>>

(* ------------------------- GET /waveform/<filename> ------------------- *)
SampleMin(samples) == CHOOSE m \in {samples[k] : k \in Samples} :
                         \A k \in Samples : m <= samples[k]
SampleMax(samples) == CHOOSE m \in {samples[k] : k \in Samples} :
                         \A k \in Samples : m >= samples[k]

\* one {min, max} point per segment, not normalised
GenerateWaveform(f) ==
  [p \in 1..TotalSegments(f) |->
     [min |-> SampleMin(audio[f][p - 1]), max |-> SampleMax(audio[f][p - 1])]]

\* the cache file after the request
CacheAfter(f) ==
  IF FileExists(f) /\ waveformCache[f] = <<>>
  THEN [waveformCache EXCEPT ![f] = GenerateWaveform(f)]
  ELSE waveformCache

GetWaveform(r) ==
  \E f \in Filenames :
    /\ Arrives(r)
    /\ endpoint' = [endpoint EXCEPT ![r] = "waveform"]
    /\ status' = [status EXCEPT ![r] = IF FileExists(f) THEN 200 ELSE 404]
    /\ waveformCache' = CacheAfter(f)
    /\ Return(r)
    /\ UNCHANGED <<playCounts, totalStreams, audio, locks, filename, data,
                   range_header, failure, reported, startCounts>>

Next ==
  \E r \in Requests :
    \/ Degrade(r)
    \/ StreamBegin(r)
    \/ StreamRead(r)
    \/ StreamEnd(r)
    \/ StreamChunk(r)
    \/ GetTracks(r)
    \/ GetStats(r)
    \/ GetWaveform(r)

Spec == Init /\ [][Next]_vars

\* the steps of a degrade request that has passed validation, other than its
\* failure: its thread is scheduled again and again, and an acquisition that
\* cannot succeed ends when the lock manager's timeout of 5.0 seconds expires
Progress(r) ==
  \/ DegradeLock(r)
  \/ DegradeLockTimeout(r)
  \/ DegradeRead(r)
  \/ DegradeWriteBegin(r)
  \/ DegradeWriteEnd(r)
  \/ DegradeIncrementLoad(r)
  \/ DegradeCommit(r)

FairSpec == Spec /\ \A r \in Requests : WF_vars(Progress(r))
(* ============================ properties ============================== *)
DegradeRequests == {r \in Requests : endpoint[r] = "degrade"}

\* inside the read-transform-write-commit section of the 'with' block
InCritical(r) == pc[r] \in {"read", "write", "writing", "commit", "save"}

\* the requests that were answered 'success' for segment i of track f
Succeeded(f, i) ==
  {r \in DegradeRequests : /\ status[r] = 200
                           /\ filename[r] = f
                           /\ segment_index(r) = i}

\* C1: whatever the interleaving, the persisted play count of a segment is its
\* count at start plus the number of degrade requests on that segment that
\* succeeded: no increment is lost and none is applied twice.
C1_ExactlyN ==
  \A f \in Tracks : \A i \in SegmentsOf(f) :
    playCounts[f][i] = startCounts[f][i] + Cardinality(Succeeded(f, i))

\* every request succeeded on one segment, and two of them overlapped: both
\* report the count of the same snapshot
C1_Witness ==
  \E f \in Tracks : \E i \in SegmentsOf(f) :
    /\ Succeeded(f, i) = Requests
    /\ \E r1, r2 \in Requests : r1 # r2 /\ reported[r1] = reported[r2]

\* C2: at most one request is inside the critical section of degrade_segment
\* for a given (filename, segment_index).
C2_MutualExclusion ==
  \A r1, r2 \in Requests :
    (r1 # r2 /\ InCritical(r1) /\ InCritical(r2))
      => <<filename[r1], segment_index(r1)>> # <<filename[r2], segment_index(r2)>>

\* one request is in the section while another waits for the same segment
C2_Witness ==
  \E r1, r2 \in Requests :
    /\ InCritical(r1) /\ pc[r2] = "lock"
    /\ filename[r1] = filename[r2] /\ segment_index(r1) = segment_index(r2)

\* C3 (as claimed): the play count a request works with is the persisted count
\* at that moment, and the play_count values reported by the N successful
\* degrades of a segment that started at c are c+1, ..., c+N, each once.
C3_ReportedCounts ==
  /\ \A r \in Requests :
       pc[r] \in {"write", "writing", "commit", "save"}
         => play_count[r] = playCounts[filename[r]][segment_index(r)]
  /\ \A f \in Tracks : \A i \in SegmentsOf(f) :
       LET n == Cardinality(Succeeded(f, i))
       IN /\ {reported[r] : r \in Succeeded(f, i)}
               = (startCounts[f][i] + 1)..(startCounts[f][i] + n)

\* request r takes a step
Moved(r) == pc'[r] # pc[r]
\* request r is answered 'success' in this step
Commits(r) == endpoint[r] = "degrade" /\ status[r] = 0 /\ status'[r] = 200

OtherCountsSame(f, i) ==
  \A g \in Tracks : \A j \in SegmentsOf(g) :
    <<g, j>> # <<f, i>> => playCounts'[g][j] = playCounts[g][j]
OtherAudioSame(f, i) ==
  \A g \in Tracks : \A j \in SegmentsOf(g) :
    <<g, j>> # <<f, i>> => audio'[g][j] = audio[g][j]

\* C4: over the steps of one successful degrade request on (f, i), the play
\* count of (f, i) changes once, by exactly +1 at the commit, and no step
\* changes the play count or the samples of any other segment.
C4_Frame ==
  [][\A r \in Requests :
       (Moved(r) /\ endpoint'[r] = "degrade" /\ filename'[r] \in Tracks)
         => LET f == filename'[r]
                i == data'[r].segment_index
            IN /\ OtherCountsSame(f, i)
               /\ OtherAudioSame(f, i)
               /\ playCounts'[f] # playCounts[f] => Commits(r)
               /\ Commits(r) => playCounts'[f][i] = playCounts[f][i] + 1]_vars

\* a degrade of the second segment succeeded and changed its samples; the rest
\* of the store is as it was at start
C4_Witness ==
  \E r \in Succeeded("a.wav", 1) :
    /\ audio["a.wav"][1] # OriginalSamples("a.wav", 1)
    /\ audio["a.wav"][0] = OriginalSamples("a.wav", 0)
    /\ playCounts["a.wav"][0] = startCounts["a.wav"][0]
    /\ playCounts["a.wav"][1] = startCounts["a.wav"][1] + 1

\* degrade requests that passed validation, on two segments of one track
OnDifferentSegments(r1, r2) ==
  /\ r1 # r2
  /\ r1 \in DegradeRequests /\ r2 \in DegradeRequests
  /\ status[r1] \notin {400, 404} /\ status[r2] \notin {400, 404}
  /\ filename[r1] = filename[r2]
  /\ segment_index(r1) # segment_index(r2)

\* a request that went for the lock of the segment of r and did not time out
Competitor(r, r3) ==
  /\ r3 # r /\ r3 \in DegradeRequests
  /\ filename[r3] = filename[r] /\ segment_index(r3) = segment_index(r)
  /\ (InCritical(r3) \/ status[r3] \in {200, 500})

\* C5: requests on different segments of one track never wait for each other's
\* lock: neither waits on a lock the other holds, a request times out only when
\* a request on its own segment got the lock, and once both have succeeded each
\* segment's count holds its own increments.
C5_DifferentSegments ==
  \A r1, r2 \in Requests :
    OnDifferentSegments(r1, r2) =>
      /\ ~(pc[r1] = "lock" /\ locks[MyKey(r1)] = r2)
      /\ status[r1] = 503 => \E r3 \in Requests : Competitor(r1, r3)
      /\ (status[r1] = 200 /\ status[r2] = 200) =>
           playCounts[filename[r1]][segment_index(r1)]
             = startCounts[filename[r1]][segment_index(r1)]
                 + Cardinality(Succeeded(filename[r1], segment_index(r1)))

\* two requests are at the store's save on two segments of one track at once
C5_Witness ==
  \E r1, r2 \in Requests :
    /\ OnDifferentSegments(r1, r2)
    /\ pc[r1] = "save" /\ pc[r2] = "save"

\* C6: a request whose wait for the lock times out is answered 503 and ends,
\* and neither that step nor its step before the lock changes the audio, the
\* play counts, the stream counts or the lock table.
C6_TimeoutChangesNothing ==
  [][\A r \in Requests :
       /\ (pc[r] = "lock" /\ Moved(r) /\ locks[<<filename[r], segment_index(r)>>] # 0)
            => /\ status'[r] = 503 /\ pc'[r] = "done"
               /\ UNCHANGED <<audio, playCounts, totalStreams, locks>>
       /\ (pc[r] = "idle" /\ pc'[r] = "lock")
            => UNCHANGED <<audio, playCounts, totalStreams, locks>>]_vars

\* a request was answered 503 while the holder is still in the section
C6_Witness ==
  \E r1, r2 \in Requests :
    /\ status[r1] = 503 /\ pc[r1] = "done"
    /\ InCritical(r2) /\ locks[<<filename[r1], segment_index(r1)>>] = r2

\* C7: a lock is held only by a request inside the critical section for that
\* key: a request that has ended, by success or by an exception, holds none.
C7_LockReleased ==
  \A key \in LockKeys :
    locks[key] # 0 =>
      /\ InCritical(locks[key])
      /\ key = <<filename[locks[key]], segment_index(locks[key])>>

\* a request failed inside the section, and a later request on the same key
\* is inside the section
C7_Witness ==
  \E r1, r2 \in Requests :
    /\ r1 \in DegradeRequests /\ status[r1] = 500 /\ pc[r1] = "done"
    /\ InCritical(r2)
    /\ filename[r1] = filename[r2] /\ segment_index(r1) = segment_index(r2)

\* C8: a play count changes only in the commit of a request that holds the
\* segment's lock and whose write-back is complete (the file holds its degraded
\* samples); a request that fails in the read, the transform or the write-back
\* ends with 500 and leaves the play counts as they were.
C8_IncrementAfterWrite ==
  [][/\ \A f \in Tracks : \A i \in SegmentsOf(f) :
          playCounts'[f][i] # playCounts[f][i] =>
            \E r \in Requests :
              /\ pc[r] = "save" /\ pc'[r] = "done"
              /\ filename[r] = f /\ segment_index(r) = i
              /\ locks[<<f, i>>] = r
              /\ audio[f][i] = degraded_audio[r]
     /\ \A r \in Requests :
          (pc[r] \in {"read", "write", "writing"} /\ pc'[r] = "done")
            => status'[r] = 500 /\ playCounts' = playCounts]_vars

\* a write-back failed half way: the samples changed, the count did not
C8_Witness ==
  \E r \in DegradeRequests :
    /\ status[r] = 500 /\ filename[r] = "a.wav"
    /\ audio["a.wav"][segment_index(r)] # OriginalSamples("a.wav", segment_index(r))
    /\ playCounts["a.wav"] = startCounts["a.wav"]

\* C9: a degrade request with a segment_index for an unknown track is answered
\* 404, one for a known track with an index outside [0, total_segments) is
\* answered 400; either ends at once, takes no lock and changes no sample and
\* no play count.
C9_Validation ==
  [][\A r \in Requests :
       (pc[r] = "idle" /\ endpoint'[r] = "degrade" /\ data'[r].given)
         => /\ filename'[r] \notin Tracks
                 => status'[r] = 404
            /\ (filename'[r] \in Tracks
                  /\ data'[r].segment_index \notin SegmentsOf(filename'[r]))
                 => status'[r] = 400
            /\ status'[r] # 0
                 => pc'[r] = "done" /\ UNCHANGED <<audio, playCounts, locks>>]_vars

\* one request was refused with 404 and one with 400 for its index
C9_Witness ==
  \E r1, r2 \in DegradeRequests :
    /\ status[r1] = 404
    /\ status[r2] = 400 /\ data[r2].given /\ filename[r2] \in Tracks

\* C10: no step of any request lowers a play count, and a play count rises
\* only in the step in which a degrade request on that very track and segment
\* is answered 'success'.
C10_Monotonic ==
  [][\A f \in Tracks : \A i \in SegmentsOf(f) :
       /\ playCounts'[f][i] >= playCounts[f][i]
       /\ playCounts'[f][i] > playCounts[f][i] =>
            \E r \in Requests :
              /\ Commits(r)
              /\ filename[r] = f /\ segment_index(r) = i]_vars

\* a count has risen while a stream of the same track is running
C10_Witness ==
  \E f \in Tracks : \E i \in SegmentsOf(f) : \E r \in Requests :
    /\ playCounts[f][i] > startCounts[f][i]
    /\ endpoint[r] = "stream" /\ filename[r] = f /\ pc[r] = "stream"

\* the degrade requests that were answered
Answered == {r \in DegradeRequests : pc[r] = "done"}

OutcomeOf(kind) ==
  CASE kind = "none"            -> 200
    [] kind = "NotFound"        -> 404
    [] kind = "InvalidArgument" -> 400
    [] kind = "Unavailable"     -> 503
    [] kind = "IOFailure"       -> 500
    [] kind = "InternalError"   -> 500

Acts(r, e) == endpoint'[r] = e /\ (pc'[r] # pc[r] \/ pos'[r] # pos[r])

\* request r arrives at endpoint e
Begins(r, e) == pc[r] = "idle" /\ endpoint'[r] = e

\* C12: the step in which a /stream request arrives raises the track's
\* total_streams by exactly 1 when the file exists and the request has no Range
\* header, and leaves every total_streams as it is when the request has a Range
\* header or the file does not exist; no step of a /stream request changes a
\* segment play count, and its later steps leave total_streams alone.
C12_StreamCounts ==
  [][\A r \in Requests :
       /\ Begins(r, "stream") =>
            IF filename'[r] \in Tracks /\ ~range_header'[r]
            THEN /\ totalStreams'[filename'[r]] = totalStreams[filename'[r]] + 1
                 /\ \A f \in Tracks \ {filename'[r]} :
                      totalStreams'[f] = totalStreams[f]
            ELSE totalStreams' = totalStreams
       /\ Acts(r, "stream") => playCounts' = playCounts
       /\ Acts(r, "stream") /\ pc[r] # "idle" => totalStreams' = totalStreams]_vars

\* of two streams of one track, one with a Range header and one without, only
\* one was counted
C12_Witness ==
  \E r1, r2 \in Requests : \E f \in Tracks :
    /\ endpoint[r1] = "stream" /\ filename[r1] = f /\ range_header[r1]
    /\ endpoint[r2] = "stream" /\ filename[r2] = f /\ ~range_header[r2]
    /\ totalStreams[f] = 1

\* the endpoints other than POST /degrade
ReadEndpoints == {"tracks", "stream", "chunk", "stats", "waveform"}

\* C13 as stated: POST /degrade is the only mutating endpoint: no step of a
\* request to /tracks, /stream, /stream/<filename>/chunk/<n>, /stats or
\* /waveform changes the audio file bytes or the persisted metadata record
\* (segment play counts and total_streams) of any track.
C13_OnlyDegradeMutates ==
  [][\A r \in Requests : \A e \in ReadEndpoints :
       Acts(r, e) => /\ audio' = audio
                     /\ playCounts' = playCounts
                     /\ totalStreams' = totalStreams]_vars

\* C13 amended: no step of a request to /tracks, /stream,
\* /stream/<filename>/chunk/<n>, /stats or /waveform changes the audio file
\* bytes or a segment play count, so POST /degrade is the only endpoint that
\* does; of the metadata record, total_streams is changed by one more
\* endpoint, /stream, and by no other read endpoint.
C13_ReadEndpoints ==
  [][\A r \in Requests : \A e \in ReadEndpoints :
       Acts(r, e) => /\ audio' = audio
                     /\ playCounts' = playCounts
                     /\ e # "stream" => totalStreams' = totalStreams]_vars

\* a chunk of a track was served and a stream of a track was counted, with
\* every sample and play count as at the start
C13_Witness ==
  \E r1, r2 \in Requests : \E f \in Tracks :
    /\ endpoint[r1] = "chunk" /\ status[r1] = 200
    /\ endpoint[r2] = "stream" /\ filename[r2] = f /\ totalStreams[f] = 1
    /\ \A g \in Tracks : \A i \in SegmentsOf(g) : audio[g][i] = OriginalSamples(g, i)
    /\ playCounts = startCounts

\* the measured degradation of a sample buffer: its number of zeroed samples
Zeroed(samples) == Cardinality({k \in Samples : samples[k] = 0})

\* C14: for every segment, the number of zeroed samples of the segment on disk
\* never goes down, whichever request takes the step: it is non-decreasing
\* across successive degrades of the segment under any interleaving with
\* requests on other segments, half-finished and failed write-backs included.
C14_DegradationMonotonic ==
  [][\A f \in Tracks : \A i \in SegmentsOf(f) :
       Zeroed(audio'[f][i]) >= Zeroed(audio[f][i])]_vars

\* two successive degrades of one segment succeeded, and each of them zeroed
\* more of it
C14_Witness ==
  \E f \in Tracks : \E i \in SegmentsOf(f) :
    /\ Cardinality(Succeeded(f, i)) = 2
    /\ Zeroed(OriginalSamples(f, i)) = 0
    /\ Zeroed(audio[f][i]) = 2

\* the segment of request r as it is on disk
Live(r) == audio[filename[r]][segment_index(r)]

\* C15: a degrade request transforms the live contents of its segment: from
\* its read to its write-back the samples it read are the samples on disk, so
\* they are those written by the latest degrade of the segment (or the
\* original ones), and while it writes back, the part of the window it has not
\* yet overwritten is still what it read; no write-back is based on samples
\* older than a result another request has written.
C15_ReadsLiveContents ==
  \A r \in DegradeRequests :
    /\ pc[r] = "write" => audio_data[r] = Live(r)
    /\ pc[r] = "writing" =>
         \A k \in Samples :
           Live(r)[k] = IF k <= FirstPart THEN degraded_audio[r][k]
                                         ELSE audio_data[r][k]
    /\ pc[r] \in {"commit", "save"} => Live(r) = degraded_audio[r]

\* a request is about to write back what it made of the result of an earlier
\* degrade of the same segment
C15_Witness ==
  \E r1, r2 \in DegradeRequests :
    /\ status[r1] = 200 /\ pc[r2] = "write"
    /\ filename[r1] = filename[r2] /\ segment_index(r1) = segment_index(r2)
    /\ audio_data[r2] # OriginalSamples(filename[r2], segment_index(r2))
    /\ audio_data[r2] = Live(r2)

\* the requests to the two streaming endpoints
StreamRequests == {r \in Requests : endpoint[r] \in {"stream", "chunk"}}

\* C16: a streaming request never holds a segment lock and never waits for
\* one: whatever locks the degrade requests hold, on its own track too, a
\* stream that has started can always take its next step, up to its end.
C16_StreamsNeverWait ==
  \A r \in StreamRequests :
    /\ \A key \in LockKeys : locks[key] # r
    /\ pc[r] # "lock"
    /\ pc[r] = "stream" => ENABLED (StreamRead(r) \/ StreamEnd(r))

\* a stream has read a segment between the start and the end of the
\* write-back of a degrade request that holds the lock of that segment: what
\* it read is the half-written window, not what the degrade request had read
C16_Witness ==
  \E r1, r2 \in Requests :
    /\ endpoint[r1] = "stream" /\ pc[r1] = "stream"
    /\ endpoint[r2] = "degrade" /\ pc[r2] = "writing"
    /\ locks[MyKey(r2)] = r2
    /\ filename[r1] = filename[r2] /\ pos[r1] = segment_index(r2) + 1
    /\ audio_data[r1] = Live(r2)
    /\ audio_data[r1] # audio_data[r2]

\* the outcomes of a degrade request
Outcomes == {200, 400, 404, 503, 500}

\* a degrade request that is waiting for its lock or holds it
Running(r) == endpoint[r] = "degrade" /\ (pc[r] = "lock" \/ InCritical(r))

\* C17: under fair scheduling every degrade request ends, with exactly one of
\* the outcomes success, 400, 404, 503 and 500: a request that waits for its
\* lock can always either take it or time out, a request that holds it always
\* has a next step, each of them is answered in the end, and a request has no
\* outcome before it is answered and keeps its outcome once it is.
C17_Terminates ==
  /\ \A r \in Requests :
       [](Running(r) => <>(pc[r] = "done" /\ status[r] \in Outcomes))
  /\ [](\A r \in DegradeRequests :
          /\ pc[r] = "done" <=> status[r] # 0
          /\ status[r] \in Outcomes \cup {0}
          /\ pc[r] = "lock" => ENABLED (DegradeLock(r) \/ DegradeLockTimeout(r))
          /\ InCritical(r) => ENABLED Progress(r))
  /\ [][\A r \in DegradeRequests :
          pc[r] = "done" => pc'[r] = "done" /\ status'[r] = status[r]]_vars

\* every request was a degrade of one segment: one of them timed out, the other
\* one succeeded, and all of them are answered
C17_Witness ==
  /\ \A r \in Requests : endpoint[r] = "degrade" /\ pc[r] = "done"
  /\ \E r1, r2 \in Requests :
       /\ status[r1] = 503 /\ status[r2] = 200
       /\ filename[r1] = filename[r2] /\ segment_index(r1) = segment_index(r2)

\* the degrade requests whose lock acquisition timed out
TimedOut == {r \in DegradeRequests : failure[r] = "Unavailable"}

\* C18: a request whose lock acquisition timed out releases nothing when it
\* leaves the 'with' block: it holds no lock itself, and every request inside
\* the critical section still holds the lock of its segment, however many
\* requests have timed out on it.
C18_TimeoutReleasesNothing ==
  /\ \A r \in TimedOut : \A key \in LockKeys : locks[key] # r
  /\ \A r \in DegradeRequests : InCritical(r) => locks[MyKey(r)] = r

\* a request has timed out on a segment whose holder, still holding the lock,
\* has reached the last step of the section
C18_Witness ==
  \E r1 \in TimedOut : \E r2 \in DegradeRequests :
    /\ pc[r1] = "done" /\ pc[r2] = "save"
    /\ MyKey(r1) = MyKey(r2)
    /\ locks[MyKey(r2)] = r2

\* the locks request r holds
Held(r) == {key \in LockKeys : locks[key] = r}

\* the requests that wait for a lock
Waiting == {r \in Requests : pc[r] = "lock"}

\* C19: no request ever holds more than one segment lock, and no request
\* waits for a lock while it holds one, so the requests cannot deadlock:
\* whenever requests wait, every one of them can either take its lock or time
\* out.
C19_NoDeadlock ==
  /\ \A r \in Requests : Cardinality(Held(r)) <= 1
  /\ \A r \in Waiting :
       /\ Held(r) = {}
       /\ ENABLED (DegradeLock(r) \/ DegradeLockTimeout(r))

\* a request waits, holding nothing, for the one lock another request holds
C19_Witness ==
  \E r1, r2 \in Requests :
    /\ r1 \in Waiting /\ Held(r1) = {}
    /\ Held(r2) = {MyKey(r1)} /\ pc[r2] = "writing"
====
